---- MODULE Spec2Model ----
(***************************************************************************)
(* A model of the SvxReflector core (src/svxlink/reflector/Reflector.cpp): *)
(* the client registry, the datagram dispatch, the talker-updated reaction *)
(* and the QSY request, together with the parts of ReflectorClient and     *)
(* TGHandler the reflector calls into.                                     *)
(*                                                                         *)
(* A client object is identified by its index in Objs.  A callsign is      *)
(* modelled by the index of the object that owns it, 0 being the empty     *)
(* string; a null client pointer is 0 as well.                             *)
(***************************************************************************)
EXTENDS Integers, Sequences, FiniteSets, TLC

\* ---------------------------------------------------------------- bounds
MaxClients == 2      \* client objects ever created
MaxUdpClients == 1   \* client objects ever created, datagram channel
MaxTG      == 2      \* talkgroups 1..MaxTG
MaxHost    == 2      \* IP addresses 1..MaxHost
MaxPort    == 2      \* UDP source ports 1..MaxPort
MaxUdpTx   == 2      \* outbound sequence numbers explored past 0
MaxSqlTimeout   == 2 \* configured SQL_TIMEOUT values 0..MaxSqlTimeout
MaxBlocktime    == 2 \* configured SQL_TIMEOUT_BLOCKTIME values 1..MaxBlocktime
MaxSiglev       == 2 \* signal levels and squelch thresholds 0..MaxSiglev
MaxSetOpenCalls == 3 \* setOpen calls recorded between two resets

\* ------------------------------------------------------ program constants
SeqMod      == 65536   \* uint16_t sequence numbers
SeqHalf     == 32767   \* 0x7fff
V1Lo        == 1000    \* ProtoVer(1, 0)
V1Hi        == 1999    \* ProtoVer(1, 999)
V2Lo        == 2000    \* ProtoVer(2, 0)
V2Hi        == 2999    \* ProtoVer(2, 999)
DefaultTgForV1Clients == 1 \* m_tg_for_v1_clients when not configured
DefaultBlocktime == 60 \* sql_timeout_blocktime when not configured

Objs   == 1..MaxClients
TGs    == 1..MaxTG
Hosts  == 1..MaxHost
Ports  == 1..MaxPort
\* sequence numbers carried by incoming datagrams
SeqVals == {0, SeqHalf, SeqMod - 1}
\* negotiated protocol versions, major * 1000 + minor
ProtoVers == {V1Lo, V2Lo}

STATE_CONNECTED == "Connected"
ConStates == {"Connecting", "Handshaking", "AwaitAuthResp", STATE_CONNECTED}

\* datagram kinds: <<type, payload>>
DgramKinds == { <<"Heartbeat", "none">>,
                <<"Audio", "data">>, <<"Audio", "empty">>,
                <<"Audio", "malformed">>,
                <<"FlushSamples", "none">>,
                <<"AllSamplesFlushed", "none">>,
                <<"Other", "none">> }

VARIABLES
  m_client_map,        \* Reflector: clientId -> client
  m_client_con_map,    \* Reflector: connection -> client
  m_tg_for_v1_clients, \* Reflector
  m_random_qsy_lo, m_random_qsy_hi, m_random_qsy_tg,   \* Reflector
  tasks,               \* Application::runTask queue of clients to delete
  next_client_id,      \* ReflectorClient: next id to hand out
  obj_state,           \* per object: "none", "live", "disconnected", "deleted"
  client_id,           \* ReflectorClient::clientId()
  con_state,           \* ReflectorClient::conState()
  callsign,            \* ReflectorClient::callsign()
  proto_ver,           \* ReflectorClient::protoVer()
  remote_host,         \* connection's remote host
  remote_udp_port,     \* ReflectorClient::remoteUdpPort()
  next_udp_rx_seq,     \* ReflectorClient::nextUdpRxSeq()
  next_udp_tx_seq,     \* ReflectorClient: next outbound sequence number
  monitored_tgs,       \* ReflectorClient::monitoredTGs()
  block_left,          \* ReflectorClient: seconds of block remaining
  tg_of,               \* TGHandler::TGForClient
  talker,              \* TGHandler::talkerForTG
  silence,             \* TGHandler: seconds since the talker's last audio
  sql_timeout, sql_timeout_blocktime,   \* TGHandler
  last_tx_seq,         \* history: sequence of the last datagram sent, -1 if none
  out,                 \* history: what the last handler sent, in order
  ev,                  \* history: the last handler run and its input
  is_open,             \* SquelchSigLev
  open_thresh, close_thresh,   \* SquelchSigLev; 0 while not yet assigned
  thresh_set,          \* SquelchSigLev: <<open_thresh, close_thresh>> assigned?
  set_open_calls,      \* history: arguments of the setOpen calls since the
                       \* construction or the last reset, in order
  sq_ev                \* history: the last SquelchSigLev call and what it read

cfgvars == << m_tg_for_v1_clients, m_random_qsy_lo, m_random_qsy_hi,
              sql_timeout, sql_timeout_blocktime >>
regvars == << m_client_map, m_client_con_map, tasks, next_client_id,
              obj_state, client_id >>
sessvars == << con_state, callsign, proto_ver, remote_host, remote_udp_port,
               next_udp_rx_seq, monitored_tgs >>
tgvars == << tg_of, talker, silence, block_left >>
txvars == << next_udp_tx_seq, last_tx_seq >>
sqvars == << is_open, open_thresh, close_thresh, thresh_set, set_open_calls,
            sq_ev >>
refvars == << cfgvars, regvars, sessvars, tgvars, txvars, m_random_qsy_tg,
              out, ev >>
vars == << refvars, sqvars >>

\* --------------------------------------------------------------- helpers
NoEv == [op |-> "init", c |-> 0, id |-> 0, addr |-> 0, port |-> 0, seq |-> 0,
         type |-> "none", payload |-> "none", res |-> "none", tg |-> 0]

Msg(ch, to, type, tg, who, seq) ==
  [ch |-> ch, to |-> to, type |-> type, tg |-> tg, who |-> who, seq |-> seq]

\* The part of the state a handler threads through the calls it makes.
Cur == [map |-> m_client_map, tg_of |-> tg_of, talker |-> talker,
        silence |-> silence, block |-> block_left,
        tx |-> next_udp_tx_seq, last |-> last_tx_seq,
        out |-> << >>]

\* ReflectorClient::sendMsg: one framed message on the control channel.
SendMsg(s, client, type, tg, who) ==
  [s EXCEPT !.out = Append(@, Msg("tcp", client, type, tg, who, -1))]

\* Mutant: the sequence number is incremented without wrapping to 16 bits.
SendUdpMsg_NoWrap(s, client, type, who) ==
  [s EXCEPT !.out = Append(@, Msg("udp", client, type, 0, who, s.tx[client])),
            !.last[client] = s.tx[client],
            !.tx[client] = s.tx[client] + 1]

\* ReflectorClient::sendUdpMsg: the datagram carries the next outbound
\* sequence number, which is then incremented modulo 2^16.
SendUdpMsg(s, client, type, who) ==
  [s EXCEPT !.out = Append(@, Msg("udp", client, type, 0, who, s.tx[client])),
            !.last[client] = s.tx[client],
            !.tx[client] = (s.tx[client] + 1) % SeqMod]

\* Filters are the sets of clients they accept.
ProtoVerRangeFilter(lo, hi) == {c \in Objs : lo <= proto_ver[c] /\ proto_ver[c] <= hi}
v1_client_filter == ProtoVerRangeFilter(V1Lo, V1Hi)
\* Mutant: the v2 range reaches down to ProtoVer(1, 0).
v2_client_filter_Wide == ProtoVerRangeFilter(V1Lo, V2Hi)
v2_client_filter == ProtoVerRangeFilter(V2Lo, V2Hi)
TgFilter(s, tg) == {c \in Objs : s.tg_of[c] = tg}
TgMonitorFilter(tg) == {c \in Objs : tg \in monitored_tgs[c]}
ExceptFilter(client) == Objs \ {client}

\* Reflector::broadcastMsg, from key id upwards (std::map iterates in key order).
RECURSIVE BroadcastMsgFrom(_, _, _, _, _, _)
BroadcastMsgFrom(s, id, type, tg, who, filter) ==
  IF id > MaxClients THEN s
  ELSE LET client == IF id \in DOMAIN s.map THEN s.map[id] ELSE 0
           s1 == IF /\ client # 0
                    /\ client \in filter
                    /\ con_state[client] = STATE_CONNECTED
                 THEN SendMsg(s, client, type, tg, who)
                 ELSE s
       IN BroadcastMsgFrom(s1, id + 1, type, tg, who, filter)

BroadcastMsg(s, type, tg, who, filter) ==
  BroadcastMsgFrom(s, 1, type, tg, who, filter)

\* Reflector::broadcastUdpMsg, from key id upwards.
RECURSIVE BroadcastUdpMsgFrom(_, _, _, _, _)
BroadcastUdpMsgFrom(s, id, type, who, filter) ==
  IF id > MaxClients THEN s
  ELSE LET client == IF id \in DOMAIN s.map THEN s.map[id] ELSE 0
           s1 == IF /\ client # 0
                    /\ client \in filter
                    /\ con_state[client] = STATE_CONNECTED
                 THEN SendUdpMsg(s, client, type, who)
                 ELSE s
       IN BroadcastUdpMsgFrom(s1, id + 1, type, who, filter)

BroadcastUdpMsg(s, type, who, filter) ==
  BroadcastUdpMsgFrom(s, 1, type, who, filter)

\* Mutant: the listeners are not told to flush when a talker stops.
OnTalkerUpdated_NoFlush(s, tg, old_talker, new_talker) ==
  LET listeners == v2_client_filter \cap (TgFilter(s, tg) \cup TgMonitorFilter(tg))
      s1 == IF old_talker # 0
            THEN BroadcastMsg(s, "MsgTalkerStop", tg, callsign[old_talker],
                              listeners)
            ELSE s
      s2 == IF old_talker # 0 /\ tg = m_tg_for_v1_clients
            THEN BroadcastMsg(s1, "MsgTalkerStopV1", 0, callsign[old_talker],
                              v1_client_filter)
            ELSE s1
      s4 == IF new_talker # 0
            THEN BroadcastMsg(s2, "MsgTalkerStart", tg, callsign[new_talker],
                              listeners)
            ELSE s2
      s5 == IF new_talker # 0 /\ tg = m_tg_for_v1_clients
            THEN BroadcastMsg(s4, "MsgTalkerStartV1", 0, callsign[new_talker],
                              v1_client_filter)
            ELSE s4
  IN s5

\* Mutant: a talker start is announced to the v1 clients whatever the
\* talkgroup is.
OnTalkerUpdated_V1Always(s, tg, old_talker, new_talker) ==
  LET listeners == v2_client_filter \cap (TgFilter(s, tg) \cup TgMonitorFilter(tg))
      s1 == IF old_talker # 0
            THEN BroadcastMsg(s, "MsgTalkerStop", tg, callsign[old_talker],
                              listeners)
            ELSE s
      s2 == IF old_talker # 0 /\ tg = m_tg_for_v1_clients
            THEN BroadcastMsg(s1, "MsgTalkerStopV1", 0, callsign[old_talker],
                              v1_client_filter)
            ELSE s1
      s3 == IF old_talker # 0
            THEN BroadcastUdpMsg(s2, "MsgUdpFlushSamples", 0,
                                 TgFilter(s, tg) \cap ExceptFilter(old_talker))
            ELSE s2
      s4 == IF new_talker # 0
            THEN BroadcastMsg(s3, "MsgTalkerStart", tg, callsign[new_talker],
                              listeners)
            ELSE s3
      s5 == IF new_talker # 0
            THEN BroadcastMsg(s4, "MsgTalkerStartV1", 0, callsign[new_talker],
                              v1_client_filter)
            ELSE s4
  IN s5

\* Mutant: a new talker is not announced to the v2 clients.
OnTalkerUpdated_NoStart(s, tg, old_talker, new_talker) ==
  LET listeners == v2_client_filter \cap (TgFilter(s, tg) \cup TgMonitorFilter(tg))
      s1 == IF old_talker # 0
            THEN BroadcastMsg(s, "MsgTalkerStop", tg, callsign[old_talker],
                              listeners)
            ELSE s
      s2 == IF old_talker # 0 /\ tg = m_tg_for_v1_clients
            THEN BroadcastMsg(s1, "MsgTalkerStopV1", 0, callsign[old_talker],
                              v1_client_filter)
            ELSE s1
      s3 == IF old_talker # 0
            THEN BroadcastUdpMsg(s2, "MsgUdpFlushSamples", 0,
                                 TgFilter(s, tg) \cap ExceptFilter(old_talker))
            ELSE s2
      s5 == IF new_talker # 0 /\ tg = m_tg_for_v1_clients
            THEN BroadcastMsg(s3, "MsgTalkerStartV1", 0, callsign[new_talker],
                              v1_client_filter)
            ELSE s3
  IN s5

\* Mutant: a talker stop is not announced on the control channel.
OnTalkerUpdated_NoStop(s, tg, old_talker, new_talker) ==
  LET listeners == v2_client_filter \cap (TgFilter(s, tg) \cup TgMonitorFilter(tg))
      s3 == IF old_talker # 0
            THEN BroadcastUdpMsg(s, "MsgUdpFlushSamples", 0,
                                 TgFilter(s, tg) \cap ExceptFilter(old_talker))
            ELSE s
      s4 == IF new_talker # 0
            THEN BroadcastMsg(s3, "MsgTalkerStart", tg, callsign[new_talker],
                              listeners)
            ELSE s3
      s5 == IF new_talker # 0 /\ tg = m_tg_for_v1_clients
            THEN BroadcastMsg(s4, "MsgTalkerStartV1", 0, callsign[new_talker],
                              v1_client_filter)
            ELSE s4
  IN s5

\* Reflector::onTalkerUpdated
OnTalkerUpdated(s, tg, old_talker, new_talker) ==
  LET listeners == v2_client_filter \cap (TgFilter(s, tg) \cup TgMonitorFilter(tg))
      s1 == IF old_talker # 0
            THEN BroadcastMsg(s, "MsgTalkerStop", tg, callsign[old_talker],
                              listeners)
            ELSE s
      s2 == IF old_talker # 0 /\ tg = m_tg_for_v1_clients
            THEN BroadcastMsg(s1, "MsgTalkerStopV1", 0, callsign[old_talker],
                              v1_client_filter)
            ELSE s1
      s3 == IF old_talker # 0
            THEN BroadcastUdpMsg(s2, "MsgUdpFlushSamples", 0,
                                 TgFilter(s, tg) \cap ExceptFilter(old_talker))
            ELSE s2
      s4 == IF new_talker # 0
            THEN BroadcastMsg(s3, "MsgTalkerStart", tg, callsign[new_talker],
                              listeners)
            ELSE s3
      s5 == IF new_talker # 0 /\ tg = m_tg_for_v1_clients
            THEN BroadcastMsg(s4, "MsgTalkerStartV1", 0, callsign[new_talker],
                              v1_client_filter)
            ELSE s4
  IN s5

\* Mutant: the event is emitted on a refresh as well.
SetTalkerForTG_RefreshEmits(s, tg, client) ==
  LET current == s.talker[tg] IN
  IF client = current
  THEN IF client = 0 THEN s
       ELSE OnTalkerUpdated([s EXCEPT !.silence[tg] = 0], tg, 0, client)
  ELSE IF current = 0
  THEN OnTalkerUpdated([s EXCEPT !.talker[tg] = client, !.silence[tg] = 0],
                       tg, 0, client)
  ELSE IF client = 0
  THEN OnTalkerUpdated([s EXCEPT !.talker[tg] = 0, !.silence[tg] = 0],
                       tg, current, 0)
  ELSE s

\* TGHandler::setTalkerForTG: refresh, install, clear, or refuse.
SetTalkerForTG(s, tg, client) ==
  LET current == s.talker[tg] IN
  IF client = current
  THEN [s EXCEPT !.silence[tg] = 0]
  ELSE IF current = 0
  THEN OnTalkerUpdated([s EXCEPT !.talker[tg] = client, !.silence[tg] = 0],
                       tg, 0, client)
  ELSE IF client = 0
  THEN OnTalkerUpdated([s EXCEPT !.talker[tg] = 0, !.silence[tg] = 0],
                       tg, current, 0)
  ELSE s

\* TGHandler::join: leave the current talkgroup, giving up the talker slot
\* if held, then enter tg (0: leave only).
Join(s, client, tg) ==
  LET old == s.tg_of[client]
      s1 == IF old > 0 /\ s.talker[old] = client
            THEN SetTalkerForTG(s, old, 0)
            ELSE s
  IN [s1 EXCEPT !.tg_of[client] = tg]

\* TGHandler::removeClient: full withdrawal, block list included.
RemoveClient(s, client) ==
  LET s1 == Join(s, client, 0)
  IN [s1 EXCEPT !.block[client] = 0]

\* The outbound sequence numbers the model explores.
TxInRange(s) ==
  \A c \in Objs : s.tx[c] <= MaxUdpTx \/ s.tx[c] >= SeqMod - MaxUdpTx

CommitState(s) ==
  /\ m_client_map' = s.map
  /\ tg_of' = s.tg_of
  /\ talker' = s.talker
  /\ silence' = s.silence
  /\ block_left' = s.block
  /\ next_udp_tx_seq' = s.tx
  /\ last_tx_seq' = s.last
  /\ out' = s.out

\* What a handler leaves behind.
Commit(s, e) ==
  \E done \in {s} :
    /\ TxInRange(done)
    /\ CommitState(done)
    /\ ev' = e

\* --------------------------------------------------------------- actions
Ev(op, client) == [NoEv EXCEPT !.op = op, !.c = client]

\* Reflector::initialize, RANDOM_QSY_RANGE = first,second:
\* <<m_random_qsy_lo, m_random_qsy_hi, m_random_qsy_tg>>.  The fields are
\* uint32_t; the ranges configured here stay far below 2^32, and the one sum
\* that wraps (0 + 0 - 1) has lo < 1 and is refused on that ground.
QsyRange(first, second) ==
  LET lo == first
      hi == lo + second - 1
  IN IF lo < 1 \/ hi < lo THEN << 0, 0, 0 >> ELSE << lo, hi, hi >>

\* Reflector::Reflector and Reflector::initialize, the configuration drawn
\* from v1tgs (TG_FOR_V1_CLIENTS), qsys (RANDOM_QSY_RANGE as read by
\* QsyRange) and sqls (<<SQL_TIMEOUT, SQL_TIMEOUT_BLOCKTIME>>).
Initialize(v1tgs, qsys, sqls) ==
  /\ m_client_map = << >>
  /\ m_client_con_map = << >>
  /\ m_tg_for_v1_clients \in v1tgs
  /\ \E q \in qsys :
       /\ m_random_qsy_lo = q[1]
       /\ m_random_qsy_hi = q[2]
       /\ m_random_qsy_tg = q[3]
  /\ \E q \in sqls :
       /\ sql_timeout = q[1]
       /\ sql_timeout_blocktime = q[2]
  /\ tasks = << >>
  /\ next_client_id = 1
  /\ obj_state = [c \in Objs |-> "none"]
  /\ client_id = [c \in Objs |-> 0]
  /\ con_state = [c \in Objs |-> "Connecting"]
  /\ callsign = [c \in Objs |-> 0]
  /\ proto_ver = [c \in Objs |-> 0]
  /\ remote_host = [c \in Objs |-> 0]
  /\ remote_udp_port = [c \in Objs |-> 0]
  /\ next_udp_rx_seq = [c \in Objs |-> 0]
  /\ next_udp_tx_seq = [c \in Objs |-> 0]
  /\ last_tx_seq = [c \in Objs |-> -1]
  /\ monitored_tgs = [c \in Objs |-> {}]
  /\ block_left = [c \in Objs |-> 0]
  /\ tg_of = [c \in Objs |-> 0]
  /\ talker = [g \in TGs |-> 0]
  /\ silence = [g \in TGs |-> 0]
  /\ out = << >>
  /\ ev = NoEv

\* Mutant: the new client is given the lowest id that no client of the
\* registry holds.
ClientConnected_ReuseId(host) ==
  /\ next_client_id <= MaxClients
  /\ LET rc == next_client_id
         id == CHOOSE i \in 1..MaxClients :
                 /\ i \notin DOMAIN m_client_map
                 /\ \A j \in 1..(i - 1) : j \in DOMAIN m_client_map
     IN /\ obj_state[rc] = "none"
        /\ obj_state' = [obj_state EXCEPT ![rc] = "live"]
        /\ client_id' = [client_id EXCEPT ![rc] = id]
        /\ remote_host' = [remote_host EXCEPT ![rc] = host]
        /\ m_client_map' = (id :> rc) @@ m_client_map
        /\ m_client_con_map' = (rc :> rc) @@ m_client_con_map
        /\ ev' = Ev("clientConnected", rc)
  /\ next_client_id' = next_client_id + 1
  /\ out' = << >>
  /\ UNCHANGED << cfgvars, tasks, con_state, callsign, proto_ver,
                  remote_udp_port, next_udp_rx_seq, monitored_tgs, tgvars,
                  txvars, m_random_qsy_tg >>

\* Reflector::clientConnected, the connection coming from host.
ClientConnected(host) ==
  /\ next_client_id <= MaxClients
  /\ LET rc == next_client_id      \* the object created, and its connection
     IN /\ obj_state[rc] = "none"
        /\ obj_state' = [obj_state EXCEPT ![rc] = "live"]
        /\ client_id' = [client_id EXCEPT ![rc] = next_client_id]
        /\ remote_host' = [remote_host EXCEPT ![rc] = host]
        /\ m_client_map' = (next_client_id :> rc) @@ m_client_map
        /\ m_client_con_map' = (rc :> rc) @@ m_client_con_map
        /\ ev' = Ev("clientConnected", rc)
  /\ next_client_id' = next_client_id + 1
  /\ out' = << >>
  /\ UNCHANGED << cfgvars, tasks, con_state, callsign, proto_ver,
                  remote_udp_port, next_udp_rx_seq, monitored_tgs, tgvars,
                  txvars, m_random_qsy_tg >>

\* Mutant: the client is not erased from m_client_con_map.
ClientDisconnected_KeepConMap(con) ==
  /\ con \in DOMAIN m_client_con_map
  /\ LET client == m_client_con_map[con]
         s1 == RemoveClient(Cur, client)
         s2 == [s1 EXCEPT !.map = [id \in DOMAIN s1.map \ {client_id[client]}
                                     |-> s1.map[id]]]
         s3 == IF callsign[client] # 0
               THEN BroadcastMsg(s2, "MsgNodeLeft", 0, callsign[client],
                                 ExceptFilter(client))
               ELSE s2
     IN /\ Commit(s3, Ev("clientDisconnected", client))
        /\ obj_state' = [obj_state EXCEPT ![client] = "disconnected"]
        /\ tasks' = Append(tasks, client)
  /\ UNCHANGED << cfgvars, next_client_id, client_id, sessvars,
                  m_random_qsy_tg, m_client_con_map >>

\* Mutant: the client is not erased from m_client_map.
ClientDisconnected_KeepIdMap(con) ==
  /\ con \in DOMAIN m_client_con_map
  /\ LET client == m_client_con_map[con]
         s1 == RemoveClient(Cur, client)
         s3 == IF callsign[client] # 0
               THEN BroadcastMsg(s1, "MsgNodeLeft", 0, callsign[client],
                                 ExceptFilter(client))
               ELSE s1
     IN /\ Commit(s3, Ev("clientDisconnected", client))
        /\ m_client_con_map' = [k \in DOMAIN m_client_con_map \ {con}
                                  |-> m_client_con_map[k]]
        /\ obj_state' = [obj_state EXCEPT ![client] = "disconnected"]
        /\ tasks' = Append(tasks, client)
  /\ UNCHANGED << cfgvars, next_client_id, client_id, sessvars,
                  m_random_qsy_tg >>

\* Mutant: MsgNodeLeft is broadcast whether or not the callsign is empty.
ClientDisconnected_NoCallsignTest(con) ==
  /\ con \in DOMAIN m_client_con_map
  /\ LET client == m_client_con_map[con]
         s1 == RemoveClient(Cur, client)
         s2 == [s1 EXCEPT !.map = [id \in DOMAIN s1.map \ {client_id[client]}
                                     |-> s1.map[id]]]
         s3 == BroadcastMsg(s2, "MsgNodeLeft", 0, callsign[client],
                            ExceptFilter(client))
     IN /\ Commit(s3, Ev("clientDisconnected", client))
        /\ m_client_con_map' = [k \in DOMAIN m_client_con_map \ {con}
                                  |-> m_client_con_map[k]]
        /\ obj_state' = [obj_state EXCEPT ![client] = "disconnected"]
        /\ tasks' = Append(tasks, client)
  /\ UNCHANGED << cfgvars, next_client_id, client_id, sessvars,
                  m_random_qsy_tg >>

\* Mutant: the client object is deleted in the handler, not by a task.
ClientDisconnected_Inline(con) ==
  /\ con \in DOMAIN m_client_con_map
  /\ LET client == m_client_con_map[con]
         s1 == RemoveClient(Cur, client)
         s2 == [s1 EXCEPT !.map = [id \in DOMAIN s1.map \ {client_id[client]}
                                     |-> s1.map[id]]]
         s3 == IF callsign[client] # 0
               THEN BroadcastMsg(s2, "MsgNodeLeft", 0, callsign[client],
                                 ExceptFilter(client))
               ELSE s2
     IN /\ Commit(s3, Ev("clientDisconnected", client))
        /\ m_client_con_map' = [k \in DOMAIN m_client_con_map \ {con}
                                  |-> m_client_con_map[k]]
        /\ obj_state' = [obj_state EXCEPT ![client] = "deleted"]
        /\ tasks' = tasks
  /\ UNCHANGED << cfgvars, next_client_id, client_id, sessvars,
                  m_random_qsy_tg >>

\* Mutant: the client is not withdrawn from the TGHandler.
ClientDisconnected_NoRemove(con) ==
  /\ con \in DOMAIN m_client_con_map
  /\ LET client == m_client_con_map[con]
         s2 == [Cur EXCEPT !.map = [id \in DOMAIN Cur.map \ {client_id[client]}
                                      |-> Cur.map[id]]]
         s3 == IF callsign[client] # 0
               THEN BroadcastMsg(s2, "MsgNodeLeft", 0, callsign[client],
                                 ExceptFilter(client))
               ELSE s2
     IN /\ Commit(s3, Ev("clientDisconnected", client))
        /\ m_client_con_map' = [k \in DOMAIN m_client_con_map \ {con}
                                  |-> m_client_con_map[k]]
        /\ obj_state' = [obj_state EXCEPT ![client] = "disconnected"]
        /\ tasks' = Append(tasks, client)
  /\ UNCHANGED << cfgvars, next_client_id, client_id, sessvars,
                  m_random_qsy_tg >>

\* Reflector::clientDisconnected
ClientDisconnected(con) ==
  /\ con \in DOMAIN m_client_con_map
  /\ LET client == m_client_con_map[con]
         s1 == RemoveClient(Cur, client)
         s2 == [s1 EXCEPT !.map = [id \in DOMAIN s1.map \ {client_id[client]}
                                     |-> s1.map[id]]]
         s3 == IF callsign[client] # 0
               THEN BroadcastMsg(s2, "MsgNodeLeft", 0, callsign[client],
                                 ExceptFilter(client))
               ELSE s2
     IN /\ Commit(s3, Ev("clientDisconnected", client))
        /\ m_client_con_map' = [k \in DOMAIN m_client_con_map \ {con}
                                  |-> m_client_con_map[k]]
        /\ obj_state' = [obj_state EXCEPT ![client] = "disconnected"]
        /\ tasks' = Append(tasks, client)
  /\ UNCHANGED << cfgvars, next_client_id, client_id, sessvars,
                  m_random_qsy_tg >>

\* delete_client, run from the task queue: the object and its fields are gone.
DeleteClient ==
  /\ tasks # << >>
  /\ LET client == Head(tasks)
     IN /\ obj_state' = [obj_state EXCEPT ![client] = "deleted"]
        /\ con_state' = [con_state EXCEPT ![client] = "Connecting"]
        /\ callsign' = [callsign EXCEPT ![client] = 0]
        /\ proto_ver' = [proto_ver EXCEPT ![client] = 0]
        /\ remote_host' = [remote_host EXCEPT ![client] = 0]
        /\ remote_udp_port' = [remote_udp_port EXCEPT ![client] = 0]
        /\ next_udp_rx_seq' = [next_udp_rx_seq EXCEPT ![client] = 0]
        /\ monitored_tgs' = [monitored_tgs EXCEPT ![client] = {}]
        /\ next_udp_tx_seq' = [next_udp_tx_seq EXCEPT ![client] = 0]
        /\ last_tx_seq' = [last_tx_seq EXCEPT ![client] = -1]
        /\ ev' = Ev("delete_client", client)
  /\ tasks' = Tail(tasks)
  /\ out' = << >>
  /\ UNCHANGED << cfgvars, m_client_map, m_client_con_map, next_client_id,
                  client_id, tgvars, m_random_qsy_tg >>

\* ReflectorClient: the server announces its protocol version.
SendProtoVer(client) ==
  /\ obj_state[client] = "live"
  /\ con_state[client] = "Connecting"
  /\ con_state' = [con_state EXCEPT ![client] = "Handshaking"]
  /\ Commit(SendMsg(Cur, client, "MsgProtoVer", 0, 0), Ev("sendProtoVer", client))
  /\ UNCHANGED << cfgvars, regvars, callsign, proto_ver, remote_host,
                  remote_udp_port, next_udp_rx_seq, monitored_tgs,
                  m_random_qsy_tg >>

\* Mutant: the session is Connected as soon as the version is negotiated.
RecvProtoVer_SkipAuth(client, ver) ==
  /\ obj_state[client] = "live"
  /\ con_state[client] = "Handshaking"
  /\ con_state' = [con_state EXCEPT ![client] = STATE_CONNECTED]
  /\ proto_ver' = [proto_ver EXCEPT ![client] = ver]
  /\ Commit(SendMsg(Cur, client, "MsgAuthChallenge", 0, 0),
            Ev("recvProtoVer", client))
  /\ UNCHANGED << cfgvars, regvars, callsign, remote_host,
                  remote_udp_port, next_udp_rx_seq, monitored_tgs,
                  m_random_qsy_tg >>

\* ReflectorClient: MsgProtoVer received, version ver negotiated.
RecvProtoVer(client, ver) ==
  /\ obj_state[client] = "live"
  /\ con_state[client] = "Handshaking"
  /\ con_state' = [con_state EXCEPT ![client] = "AwaitAuthResp"]
  /\ proto_ver' = [proto_ver EXCEPT ![client] = ver]
  /\ Commit(SendMsg(Cur, client, "MsgAuthChallenge", 0, 0),
            Ev("recvProtoVer", client))
  /\ UNCHANGED << cfgvars, regvars, callsign, remote_host,
                  remote_udp_port, next_udp_rx_seq, monitored_tgs,
                  m_random_qsy_tg >>

\* ReflectorClient: MsgAuthResponse received and verified.  The callsign
\* becomes known; a v1 client enters the talkgroup of the v1 clients.
RecvAuthResponse(client) ==
  /\ obj_state[client] = "live"
  /\ con_state[client] = "AwaitAuthResp"
  /\ con_state' = [con_state EXCEPT ![client] = STATE_CONNECTED]
  /\ callsign' = [callsign EXCEPT ![client] = client]
  /\ LET s1 == SendMsg(Cur, client, "MsgAuthOk", 0, 0)
         s2 == IF client \in v1_client_filter
               THEN Join(s1, client, m_tg_for_v1_clients)
               ELSE s1
     IN Commit(s2, Ev("recvAuthResponse", client))
  /\ UNCHANGED << cfgvars, regvars, proto_ver, remote_host,
                  remote_udp_port, next_udp_rx_seq, monitored_tgs,
                  m_random_qsy_tg >>

\* ReflectorClient: MsgSelectTG(tg) from a connected v2 client.
SelectTG(client, tg) ==
  /\ obj_state[client] = "live"
  /\ con_state[client] = STATE_CONNECTED
  /\ client \in v2_client_filter
  /\ Commit(Join(Cur, client, tg), [Ev("selectTG", client) EXCEPT !.tg = tg])
  /\ UNCHANGED << cfgvars, regvars, sessvars, m_random_qsy_tg >>

\* ReflectorClient: MsgTgMonitor(tgs) from a connected client.
TgMonitor(client, tgs) ==
  /\ obj_state[client] = "live"
  /\ con_state[client] = STATE_CONNECTED
  /\ monitored_tgs' = [monitored_tgs EXCEPT ![client] = tgs]
  /\ Commit(Cur, Ev("tgMonitor", client))
  /\ UNCHANGED << cfgvars, regvars, con_state, callsign, proto_ver,
                  remote_host, remote_udp_port, next_udp_rx_seq,
                  m_random_qsy_tg >>

\* Reflector::nodeList: the non-empty callsigns of the registry's clients.
NodeList ==
  {callsign[m_client_map[id]] :
     id \in {i \in DOMAIN m_client_map : callsign[m_client_map[i]] # 0}}

\* TGHandler::clientsForTG
ClientsForTG(s, tg) == {c \in Objs : s.tg_of[c] = tg}

\* Mutant: the cursor is advanced without wrapping from hi to lo.
RECURSIVE QsyScan_NoWrap(_, _, _, _)
QsyScan_NoWrap(s, cursor, i, range_size) ==
  IF i >= range_size THEN << cursor, i >>
  ELSE LET next == cursor + 1
       IN IF ClientsForTG(s, next) = {} THEN << next, i >>
          ELSE QsyScan_NoWrap(s, next, i + 1, range_size)

\* Mutant: the loop takes the next talkgroup without asking whether it has
\* members.
RECURSIVE QsyScan_NoEmptyTest(_, _, _, _)
QsyScan_NoEmptyTest(s, cursor, i, range_size) ==
  IF i >= range_size THEN << cursor, i >>
  ELSE << IF cursor < m_random_qsy_hi THEN cursor + 1 ELSE m_random_qsy_lo, i >>

\* The loop of Reflector::requestQsy: << m_random_qsy_tg, i >> when it ends.
RECURSIVE QsyScan(_, _, _, _)
QsyScan(s, cursor, i, range_size) ==
  IF i >= range_size THEN << cursor, i >>
  ELSE LET next == IF cursor < m_random_qsy_hi THEN cursor + 1
                   ELSE m_random_qsy_lo
       IN IF ClientsForTG(s, next) = {} THEN << next, i >>
          ELSE QsyScan(s, next, i + 1, range_size)

\* Mutant: the request goes on after a scan that found no empty talkgroup.
RequestQsy_NoFailReturn(client, tg) ==
  /\ obj_state[client] = "live"
  /\ con_state[client] = STATE_CONNECTED
  /\ LET range_size == m_random_qsy_hi - m_random_qsy_lo + 1
         scan == QsyScan(Cur, m_random_qsy_tg, 0, range_size)
         current_tg == tg_of[client]
         e == [Ev("requestQsy", client) EXCEPT !.id = tg]
     IN IF tg = 0 /\ m_random_qsy_tg = 0
        THEN /\ Commit(Cur, [e EXCEPT !.res = "range_empty"])
             /\ UNCHANGED m_random_qsy_tg
        ELSE LET to_tg == IF tg # 0 THEN tg
                          ELSE IF scan[2] = range_size THEN 0 ELSE scan[1]
             IN /\ Commit(BroadcastMsg(Cur, "MsgRequestQsy", to_tg, 0,
                            v2_client_filter \cap TgFilter(Cur, current_tg)),
                          [e EXCEPT !.res = "requested", !.tg = to_tg])
                /\ m_random_qsy_tg' = IF tg = 0 THEN scan[1]
                                      ELSE m_random_qsy_tg
  /\ UNCHANGED << cfgvars, regvars, sessvars >>

\* Reflector::requestQsy
RequestQsy(client, tg) ==
  /\ obj_state[client] = "live"
  /\ con_state[client] = STATE_CONNECTED
  /\ LET range_size == m_random_qsy_hi - m_random_qsy_lo + 1
         scan == QsyScan(Cur, m_random_qsy_tg, 0, range_size)
         current_tg == tg_of[client]
         e == [Ev("requestQsy", client) EXCEPT !.id = tg]
     IN IF tg = 0 /\ m_random_qsy_tg = 0
        THEN /\ Commit(Cur, [e EXCEPT !.res = "range_empty"])
             /\ UNCHANGED m_random_qsy_tg
        ELSE IF tg = 0 /\ scan[2] = range_size
        THEN /\ Commit(Cur, [e EXCEPT !.res = "none_available"])
             /\ m_random_qsy_tg' = scan[1]
        ELSE LET to_tg == IF tg = 0 THEN scan[1] ELSE tg
             IN /\ Commit(BroadcastMsg(Cur, "MsgRequestQsy", to_tg, 0,
                            v2_client_filter \cap TgFilter(Cur, current_tg)),
                          [e EXCEPT !.res = "requested", !.tg = to_tg])
                /\ m_random_qsy_tg' = IF tg = 0 THEN scan[1]
                                      ELSE m_random_qsy_tg
  /\ UNCHANGED << cfgvars, regvars, sessvars >>

\* TGHandler's periodic check of one talkgroup and the ones after it: a
\* talker silent for sql_timeout seconds is blocked and cleared.
RECURSIVE CheckTalkersFrom(_, _)
CheckTalkersFrom(s, tg) ==
  IF tg > MaxTG THEN s
  ELSE IF s.talker[tg] = 0 THEN CheckTalkersFrom(s, tg + 1)
  ELSE LET quiet == IF s.silence[tg] < sql_timeout THEN s.silence[tg] + 1
                    ELSE s.silence[tg]
           s1 == [s EXCEPT !.silence[tg] = quiet]
           s2 == IF sql_timeout > 0 /\ quiet >= sql_timeout
                 THEN SetTalkerForTG(
                        [s1 EXCEPT !.block[s.talker[tg]] = sql_timeout_blocktime],
                        tg, 0)
                 ELSE s1
       IN CheckTalkersFrom(s2, tg + 1)

\* One second passes: block-list entries age and expire, then the squelch
\* timeout is checked.
Tick ==
  /\ LET s1 == [Cur EXCEPT !.block = [c \in Objs |->
                                IF Cur.block[c] > 0 THEN Cur.block[c] - 1 ELSE 0]]
     IN Commit(CheckTalkersFrom(s1, 1), Ev("tick", 0))
  /\ UNCHANGED << cfgvars, regvars, sessvars, m_random_qsy_tg >>

\* ReflectorClient::isBlocked
IsBlocked(s, client) == s.block[client] > 0

\* Mutant: the audio is relayed without ExceptFilter(client).
HandleAudio_Echo(s, client, payload) ==
  LET tg == s.tg_of[client] IN
  IF payload = "data" /\ tg > 0
  THEN LET s1 == IF s.talker[tg] = 0 THEN SetTalkerForTG(s, tg, client) ELSE s
       IN IF s1.talker[tg] = client
          THEN BroadcastUdpMsg(SetTalkerForTG(s1, tg, client), "MsgUdpAudio",
                               callsign[client], TgFilter(s1, tg))
          ELSE s1
  ELSE s

\* Mutant: the audio is relayed without the test talker == client.
HandleAudio_NoTalkerTest(s, client, payload) ==
  LET tg == s.tg_of[client] IN
  IF payload = "data" /\ tg > 0
  THEN LET s1 == IF s.talker[tg] = 0 THEN SetTalkerForTG(s, tg, client) ELSE s
       IN BroadcastUdpMsg(SetTalkerForTG(s1, tg, client), "MsgUdpAudio",
                          callsign[client],
                          ExceptFilter(client) \cap TgFilter(s1, tg))
  ELSE s

\* The MsgUdpAudio case of Reflector::udpDatagramReceived, payload unpacked.
HandleAudio(s, client, payload) ==
  LET tg == s.tg_of[client] IN
  IF payload = "data" /\ tg > 0
  THEN LET s1 == IF s.talker[tg] = 0 THEN SetTalkerForTG(s, tg, client) ELSE s
       IN IF s1.talker[tg] = client
          THEN BroadcastUdpMsg(SetTalkerForTG(s1, tg, client), "MsgUdpAudio",
                               callsign[client],
                               ExceptFilter(client) \cap TgFilter(s1, tg))
          ELSE s1
  ELSE s

\* Mutant: the flush clears the talker without the test client == talker.
HandleFlushSamples_NoTalkerTest(s, client) ==
  LET tg == s.tg_of[client]
      s1 == IF tg > 0
            THEN SetTalkerForTG(s, tg, 0)
            ELSE s
  IN SendUdpMsg(s1, client, "MsgUdpAllSamplesFlushed", 0)

\* The MsgUdpFlushSamples case of Reflector::udpDatagramReceived.
HandleFlushSamples(s, client) ==
  LET tg == s.tg_of[client]
      s1 == IF tg > 0 /\ client = s.talker[tg]
            THEN SetTalkerForTG(s, tg, 0)
            ELSE s
  IN SendUdpMsg(s1, client, "MsgUdpAllSamplesFlushed", 0)

\* Mutant: audio is handled without the test !client->isBlocked().
HandleType_NoBlockTest(s, client, type, payload) ==
  IF type = "Audio"
  THEN IF payload # "malformed"
       THEN HandleAudio(s, client, payload)
       ELSE s
  ELSE IF type = "FlushSamples"
  THEN HandleFlushSamples(s, client)
  ELSE s

\* The switch on the message type in Reflector::udpDatagramReceived.
HandleType(s, client, type, payload) ==
  IF type = "Audio"
  THEN IF ~IsBlocked(s, client) /\ payload # "malformed"
       THEN HandleAudio(s, client, payload)
       ELSE s
  ELSE IF type = "FlushSamples"
  THEN HandleFlushSamples(s, client)
  ELSE s

\* Mutant: the difference is kept as a signed int, not cut to uint16_t.
UdpRxSeqDiff_Signed(seq, expected) == seq - expected

\* uint16_t udp_rx_seq_diff = header.sequenceNum() - client->nextUdpRxSeq()
UdpRxSeqDiff(seq, expected) == (seq - expected) % SeqMod

\* Mutant: the source address is not compared.
WrongSourceIp_Off(client, addr) == FALSE
\* if (addr != client->remoteHost())
WrongSourceIp(client, addr) == addr # remote_host[client]

\* else if (port != client->remoteUdpPort()), the port being known
WrongSourcePort(client, port) ==
  remote_udp_port[client] # 0 /\ port # remote_udp_port[client]

\* if (udp_rx_seq_diff > 0x7fff)
OutOfSequence(client, seq) ==
  UdpRxSeqDiff(seq, next_udp_rx_seq[client]) > SeqHalf

\* Mutant: a datagram failing the source checks makes the reflector adopt
\* its port.
UdpDropped_Relearn(client, port, e) ==
  [s |-> Cur, rport |-> port, rx |-> next_udp_rx_seq[client], e |-> e]

\* The early returns of Reflector::udpDatagramReceived on a datagram from
\* port that fails the source checks of client: nothing is touched.
UdpDropped(client, port, e) ==
  [s |-> Cur, rport |-> remote_udp_port[client],
   rx |-> next_udp_rx_seq[client], e |-> e]

\* Reflector::udpDatagramReceived for a datagram whose header unpacks to
\* (id, seq, type), arriving from addr:port.  The result: the state s the
\* handler leaves, the client's remote UDP port and next expected sequence
\* number, and the event e, which records the outcome and, of the datagram,
\* the fields the handler got to read before it returned.
UdpResult(id, addr, port, seq, type, payload) ==
  LET client == IF id \in DOMAIN m_client_map THEN m_client_map[id] ELSE 0
      e0 == [Ev("udpDatagramReceived", client) EXCEPT !.id = id]
      e1 == [e0 EXCEPT !.addr = addr]
      e2 == [e1 EXCEPT !.port = port]
      e3 == [e2 EXCEPT !.seq = seq]
      e4 == [e3 EXCEPT !.type = type]
      e5 == IF type = "Audio" /\ ~IsBlocked(Cur, client)
            THEN [e4 EXCEPT !.payload = payload] ELSE e4
  IN
  IF client = 0
  THEN [s |-> Cur, rport |-> 0, rx |-> 0,
        e |-> [e0 EXCEPT !.res = "invalid_client_id"]]
  ELSE IF WrongSourceIp(client, addr)
  THEN UdpDropped(client, port, [e1 EXCEPT !.res = "wrong_source_ip"])
  ELSE IF WrongSourcePort(client, port)
  THEN UdpDropped(client, port, [e2 EXCEPT !.res = "wrong_source_port"])
  ELSE
    LET learn == remote_udp_port[client] = 0
        s1 == IF learn
              THEN SendUdpMsg(Cur, client, "MsgUdpHeartbeat", 0)
              ELSE Cur
        rport == IF learn THEN port ELSE remote_udp_port[client]
    IN IF OutOfSequence(client, seq)
       THEN [s |-> s1, rport |-> rport, rx |-> next_udp_rx_seq[client],
             e |-> [e3 EXCEPT !.res = "out_of_sequence"]]
       ELSE [s |-> HandleType(s1, client, type, payload), rport |-> rport,
             \* ReflectorClient::udpMsgReceived
             rx |-> (seq + 1) % SeqMod,
             e |-> [e5 EXCEPT !.res = "accepted"]]

UdpDatagramReceived(id, addr, port, seq, type, payload) ==
  \E r \in {UdpResult(id, addr, port, seq, type, payload)} :
  /\ Commit(r.s, r.e)
  /\ remote_udp_port' = IF r.e.c = 0 THEN remote_udp_port
                        ELSE [remote_udp_port EXCEPT ![r.e.c] = r.rport]
  /\ next_udp_rx_seq' = IF r.e.c = 0 THEN next_udp_rx_seq
                        ELSE [next_udp_rx_seq EXCEPT ![r.e.c] = r.rx]
  /\ UNCHANGED << cfgvars, regvars, con_state, callsign, proto_ver,
                  remote_host, monitored_tgs, m_random_qsy_tg >>

\* Reflector::udpDatagramReceived for a datagram whose header does not unpack.
UdpHeaderUnpackFailed ==
  /\ Commit(Cur, Ev("udpHeaderUnpackFailed", 0))
  /\ UNCHANGED << cfgvars, regvars, sessvars, m_random_qsy_tg >>

\* The ids of the clients that completed the handshake and were told their id.
AuthenticatedIds ==
  {id \in DOMAIN m_client_map : con_state[m_client_map[id]] = STATE_CONNECTED}

\* ------------------------------------------------------ SquelchSigLev
Levels == 0..MaxSiglev

SqNoEv == [op |-> "new", siglev |-> 0, open |-> 0, close |-> 0,
           was_open |-> FALSE]

\* SquelchSigLev::SquelchSigLev: is_open is false; the thresholds are not
\* assigned before initialize.
SquelchSigLevNew ==
  /\ is_open = FALSE
  /\ open_thresh = 0
  /\ close_thresh = 0
  /\ thresh_set = << FALSE, FALSE >>
  /\ set_open_calls = << >>
  /\ sq_ev = SqNoEv

\* SquelchSigLev::initialize: base_ok is the result of Squelch::initialize;
\* open and close hold the value atoi gives for SIGLEV_OPEN_THRESH and
\* SIGLEV_CLOSE_THRESH, and are empty when the variable is not set.
SquelchInitialize(base_ok, open, close) ==
  /\ open_thresh' = IF base_ok /\ open # {}
                    THEN CHOOSE v \in open : TRUE ELSE open_thresh
  /\ close_thresh' = IF base_ok /\ open # {} /\ close # {}
                     THEN CHOOSE v \in close : TRUE ELSE close_thresh
  /\ thresh_set' = << thresh_set[1] \/ (base_ok /\ open # {}),
                      thresh_set[2] \/ (base_ok /\ open # {} /\ close # {}) >>
  /\ sq_ev' = [SqNoEv EXCEPT !.op = "initialize", !.was_open = is_open]
  /\ UNCHANGED << is_open, set_open_calls >>

\* SquelchSigLev::reset
SquelchReset ==
  /\ is_open' = FALSE
  /\ set_open_calls' = << >>
  /\ sq_ev' = [SqNoEv EXCEPT !.op = "reset", !.was_open = is_open]
  /\ UNCHANGED << open_thresh, close_thresh, thresh_set >>

\* Mutant: the thresholds are compared whatever is_open is.
ProcessSamples_NoStateTest(siglev, open, close) ==
  /\ open \in (IF thresh_set[1] THEN {open_thresh} ELSE Levels)
  /\ close \in (IF thresh_set[2] THEN {close_thresh} ELSE Levels)
  /\ IF siglev >= open
     THEN /\ is_open' = TRUE
          /\ set_open_calls' = Append(set_open_calls, TRUE)
     ELSE IF siglev < close
     THEN /\ is_open' = FALSE
          /\ set_open_calls' = Append(set_open_calls, FALSE)
     ELSE UNCHANGED << is_open, set_open_calls >>
  /\ Len(set_open_calls') <= MaxSetOpenCalls
  /\ sq_ev' = [op |-> "processSamples", siglev |-> siglev, open |-> open,
               close |-> close, was_open |-> is_open]
  /\ UNCHANGED << open_thresh, close_thresh, thresh_set >>

\* SquelchSigLev::processSamples with sig_lev_det->lastSiglev() = siglev.
\* open and close are what open_thresh and close_thresh hold when read: the
\* field once it is assigned, any value before that.
ProcessSamples(siglev, open, close) ==
  /\ open \in (IF thresh_set[1] THEN {open_thresh} ELSE Levels)
  /\ close \in (IF thresh_set[2] THEN {close_thresh} ELSE Levels)
  /\ IF ~is_open /\ siglev >= open
     THEN /\ is_open' = TRUE
          /\ set_open_calls' = Append(set_open_calls, TRUE)
     ELSE IF is_open /\ siglev < close
     THEN /\ is_open' = FALSE
          /\ set_open_calls' = Append(set_open_calls, FALSE)
     ELSE UNCHANGED << is_open, set_open_calls >>
  /\ Len(set_open_calls') <= MaxSetOpenCalls
  /\ sq_ev' = [op |-> "processSamples", siglev |-> siglev, open |-> open,
               close |-> close, was_open |-> is_open]
  /\ UNCHANGED << open_thresh, close_thresh, thresh_set >>

\* One step of the reflector, its inputs drawn from the sets of E.
NextIn(E) ==
  \/ /\ \E host \in E.hosts : next_client_id <= E.clients /\ ClientConnected(host)
     /\ UNCHANGED sqvars
  \/ /\ \E con \in Objs : ClientDisconnected(con)
     /\ UNCHANGED sqvars
  \/ DeleteClient /\ UNCHANGED sqvars
  \/ /\ \E client \in Objs : SendProtoVer(client)
     /\ UNCHANGED sqvars
  \/ /\ \E client \in Objs, ver \in E.vers : RecvProtoVer(client, ver)
     /\ UNCHANGED sqvars
  \/ /\ \E client \in Objs : RecvAuthResponse(client)
     /\ UNCHANGED sqvars
  \/ /\ \E client \in Objs, tg \in E.tgs : SelectTG(client, tg)
     /\ UNCHANGED sqvars
  \/ /\ \E client \in Objs, tgs \in E.mons : TgMonitor(client, tgs)
     /\ UNCHANGED sqvars
  \/ /\ \E client \in Objs, tg \in E.qsys : RequestQsy(client, tg)
     /\ UNCHANGED sqvars
  \/ Tick /\ UNCHANGED sqvars
  \/ /\ \E id \in E.ids, addr \in E.addrs, port \in E.ports, seq \in E.seqs,
           kind \in E.kinds :
          UdpDatagramReceived(id, addr, port, seq, kind[1], kind[2])
     /\ UNCHANGED sqvars
  \/ UdpHeaderUnpackFailed /\ UNCHANGED sqvars

\* The talkgroup logic with both protocol generations; one datagram source.
EnvTalk == [clients |-> MaxClients, ids |-> AuthenticatedIds, hosts |-> {1}, vers |-> ProtoVers, tgs |-> 0..MaxTG,
            mons |-> {{}, {MaxTG}}, qsys |-> {MaxTG}, addrs |-> {1},
            ports |-> {1}, seqs |-> {SeqHalf, SeqMod - 1},
            kinds |-> { <<"Audio", "data">>, <<"FlushSamples", "none">> }]

\* The squelch timeout: v2 clients, time passing.
EnvSql == [clients |-> MaxClients, ids |-> AuthenticatedIds, hosts |-> {1}, vers |-> {V2Lo}, tgs |-> 0..MaxTG,
           mons |-> {{}}, qsys |-> {MaxTG}, addrs |-> {1},
           ports |-> {1}, seqs |-> {SeqHalf, SeqMod - 1},
           kinds |-> { <<"Audio", "data">>, <<"FlushSamples", "none">> }]

\* The datagram channel: every source, sequence number and kind.
EnvUdp == [clients |-> MaxUdpClients, ids |-> 1..(MaxUdpClients + 1), hosts |-> Hosts, vers |-> {V2Lo}, tgs |-> {1},
           mons |-> {{}}, qsys |-> {MaxTG}, addrs |-> Hosts,
           ports |-> Ports, seqs |-> SeqVals, kinds |-> DgramKinds]

Init == /\ Initialize({DefaultTgForV1Clients}, {QsyRange(1, MaxTG)},
                      {<< 0, DefaultBlocktime >>})
        /\ SquelchSigLevNew
Next == NextIn(EnvTalk)
Spec == Init /\ [][Next]_vars

InitSql == /\ Initialize({DefaultTgForV1Clients}, {QsyRange(1, MaxTG)},
                         {<< 0, DefaultBlocktime >>,
                          << MaxSqlTimeout, MaxBlocktime >>})
           /\ SquelchSigLevNew
NextSql == NextIn(EnvSql)
SpecSql == InitSql /\ [][NextSql]_vars

NextUdp == NextIn(EnvUdp)
SpecUdp == Init /\ [][NextUdp]_vars

\* A reflector that has been running: every client object is in use by a
\* connected v2 client on talkgroup 1 that has been sent 2^16 - 1 datagrams;
\* client 1 has not sent a datagram of its own yet.
InitLongRunning ==
  /\ m_client_map = [id \in Objs |-> id]
  /\ m_client_con_map = [con \in Objs |-> con]
  /\ m_tg_for_v1_clients = DefaultTgForV1Clients
  /\ m_random_qsy_lo = 1
  /\ m_random_qsy_hi = MaxTG
  /\ m_random_qsy_tg = MaxTG
  /\ sql_timeout = 0
  /\ sql_timeout_blocktime = DefaultBlocktime
  /\ tasks = << >>
  /\ next_client_id = MaxClients + 1
  /\ obj_state = [c \in Objs |-> "live"]
  /\ client_id = [c \in Objs |-> c]
  /\ con_state = [c \in Objs |-> STATE_CONNECTED]
  /\ callsign = [c \in Objs |-> c]
  /\ proto_ver = [c \in Objs |-> V2Lo]
  /\ remote_host = [c \in Objs |-> 1]
  /\ remote_udp_port = [c \in Objs |-> IF c = 1 THEN 0 ELSE 1]
  /\ next_udp_rx_seq = [c \in Objs |-> 0]
  /\ next_udp_tx_seq = [c \in Objs |-> SeqMod - 1]
  /\ last_tx_seq = [c \in Objs |-> SeqMod - 2]
  /\ monitored_tgs = [c \in Objs |-> {}]
  /\ block_left = [c \in Objs |-> 0]
  /\ tg_of = [c \in Objs |-> 1]
  /\ talker = [g \in TGs |-> 0]
  /\ silence = [g \in TGs |-> 0]
  /\ out = << >>
  /\ ev = NoEv
  /\ SquelchSigLevNew

\* The outbound sequence numbers, from a fresh start and across the wrap.
InitTx == Init \/ InitLongRunning
NextTx == NextIn(EnvSql)
SpecTx == InitTx /\ [][NextTx]_vars

\* The audio relay: audio datagrams with data, with an empty payload and
\* malformed, from talkers, listeners and blocked clients.
EnvRelay == [EnvSql EXCEPT !.kinds = { <<"Audio", "data">>, <<"Audio", "empty">>,
                                      <<"Audio", "malformed">>,
                                      <<"FlushSamples", "none">> }]
NextRelay == NextIn(EnvRelay)
SpecRelay == InitSql /\ [][NextRelay]_vars

\* Clients that come and go: datagrams carry any client id handed out so
\* far, those of clients that have disconnected included.
EnvGone == [EnvSql EXCEPT !.ids = 1..MaxClients]
NextGone == NextIn(EnvGone)
SpecGone == Init /\ [][NextGone]_vars

\* The random QSY allocator: RANDOM_QSY_RANGE unset (the constructor's
\* zeroes), illegal, or a range of talkgroups; requests for a random and for
\* a named talkgroup.
QsyConfigs ==
  { << 0, 0, 0 >>, QsyRange(0, MaxTG), QsyRange(1, 0), QsyRange(1, MaxTG),
    QsyRange(MaxTG, 1), QsyRange(1, MaxTG + 1) }
EnvQsy == [clients |-> MaxClients, ids |-> AuthenticatedIds, hosts |-> {1}, vers |-> ProtoVers, tgs |-> 0..MaxTG,
           mons |-> {{}}, qsys |-> {0, 1}, addrs |-> {1}, ports |-> {1}, seqs |-> {SeqMod - 1},
           kinds |-> { <<"Audio", "data">> }]
InitQsy == /\ Initialize({DefaultTgForV1Clients}, QsyConfigs, {<< 0, DefaultBlocktime >>})
           /\ SquelchSigLevNew
NextQsy == NextIn(EnvQsy)
SpecQsy == InitQsy /\ [][NextQsy]_vars

\* The squelch detector of a receiver: configured or not, reset at any
\* time, fed every signal level.
NextSquelch ==
  \/ /\ \E base_ok \in BOOLEAN,
           open \in {{}} \cup {{v} : v \in Levels},
           close \in {{}} \cup {{v} : v \in Levels} :
          SquelchInitialize(base_ok, open, close)
     /\ UNCHANGED refvars
  \/ SquelchReset /\ UNCHANGED refvars
  \/ /\ \E siglev \in Levels, open \in Levels, close \in Levels :
          ProcessSamples(siglev, open, close)
     /\ UNCHANGED refvars
SpecSquelch == Init /\ [][NextSquelch]_vars

\* ------------------------------------------------------------ properties
TypeOK ==
  /\ DOMAIN m_client_map \subseteq Objs
  /\ DOMAIN m_client_con_map \subseteq Objs
  /\ \A c \in Objs :
       /\ obj_state[c] \in {"none", "live", "disconnected", "deleted"}
       /\ con_state[c] \in ConStates
       /\ next_udp_rx_seq[c] \in 0..(SeqMod - 1)
       /\ next_udp_tx_seq[c] \in 0..(SeqMod - 1)
       /\ tg_of[c] \in 0..MaxTG
  /\ \A g \in TGs : talker[g] \in {0} \cup Objs

\* The base state: everything but the history of the last handler.
base == << cfgvars, regvars, sessvars, tgvars, next_udp_tx_seq,
           m_random_qsy_tg >>

IsUdpEv(e) == e.op = "udpDatagramReceived"

\* C1: for every talkgroup g, the talker of g, if any, is a member of g, is
\* in state Connected and is a client of the registry.
C1_TalkerIsConnectedMember ==
  \A g \in TGs :
    talker[g] # 0 =>
      /\ tg_of[talker[g]] = g
      /\ con_state[talker[g]] = STATE_CONNECTED
      /\ \E id \in DOMAIN m_client_map : m_client_map[id] = talker[g]

\* A talker holds its slot while another client of the registry has just
\* left by disconnecting or by selecting another talkgroup.
C1_Witness ==
  /\ \E g \in TGs : talker[g] # 0 /\ talker[g] # ev.c
  /\ ev.op \in {"clientDisconnected", "selectTG"}

\* C2: while A is the talker of g, an audio datagram from another member B
\* of g leaves every talker as it is, relays no audio and announces no
\* talker start.
C2_PreemptionRefused ==
  [][ \A g \in TGs :
        ( /\ IsUdpEv(ev') /\ ev'.type = "Audio" /\ ev'.c # 0
          /\ tg_of[ev'.c] = g
          /\ talker[g] # 0 /\ talker[g] # ev'.c )
        => /\ talker' = talker
           /\ \A i \in 1..Len(out') :
                out'[i].type \notin {"MsgUdpAudio", "MsgTalkerStart",
                                     "MsgTalkerStartV1"} ]_vars

\* B's non-empty audio was taken in while A held the slot of their talkgroup.
C2_Witness ==
  /\ IsUdpEv(ev) /\ ev.type = "Audio" /\ ev.payload = "data"
  /\ ev.res = "accepted" /\ ev.c # 0
  /\ tg_of[ev.c] > 0
  /\ talker[tg_of[ev.c]] \notin {0, ev.c}

\* C3: a datagram accepted for client c comes from c's remote host and, if
\* c's UDP port was known when it arrived, from that port.
C3_AcceptedSourceMatches ==
  [][ (IsUdpEv(ev') /\ ev'.res = "accepted")
      => /\ ev'.c # 0
         /\ ev'.c = m_client_map[ev'.id]
         /\ ev'.addr = remote_host[ev'.c]
         /\ remote_udp_port[ev'.c] # 0 => ev'.port = remote_udp_port[ev'.c]
    ]_vars

\* A datagram was accepted from the port learned earlier: no heartbeat
\* answers it.
C3_Witness ==
  /\ IsUdpEv(ev) /\ ev.res = "accepted"
  /\ remote_udp_port[ev.c] = ev.port
  /\ \A i \in 1..Len(out) : out[i].type # "MsgUdpHeartbeat"

\* C4: a datagram dropped at the client lookup, the source address check or
\* the source port check changes nothing and sends nothing.
C4_DroppedChangesNothing ==
  [][ ( /\ IsUdpEv(ev')
        /\ \/ ev'.id \notin DOMAIN m_client_map
           \/ ev'.addr # remote_host[m_client_map[ev'.id]]
           \/ /\ remote_udp_port[m_client_map[ev'.id]] # 0
              /\ ev'.port # remote_udp_port[m_client_map[ev'.id]] )
      => /\ base' = base
         /\ out' = << >>
         /\ ev'.res \in {"invalid_client_id", "wrong_source_ip",
                         "wrong_source_port"} ]_vars

\* A datagram carrying the id of a client of the registry, whose port is
\* known, arrived from another address.
C4_Witness ==
  /\ IsUdpEv(ev) /\ ev.res = "wrong_source_ip"
  /\ ev.c # 0 /\ remote_udp_port[ev.c] # 0
  /\ tg_of[ev.c] > 0

\* C5: a datagram that passed the source checks, with sequence number s when
\* e is expected, is dropped without effect when (s - e) mod 2^16 > 0x7fff,
\* and is otherwise accepted, the expected number becoming (s + 1) mod 2^16.
C5_InboundSequencing ==
  [][ (IsUdpEv(ev') /\ ev'.res \in {"accepted", "out_of_sequence"})
      => LET c == ev'.c
             e == next_udp_rx_seq[c]
             s == ev'.seq
             diff == (s - e + SeqMod) % SeqMod
         IN IF diff > 32767
            THEN /\ ev'.res = "out_of_sequence"
                 /\ next_udp_rx_seq' = next_udp_rx_seq
                 /\ tgvars' = tgvars
                 /\ \A i \in 1..Len(out') : out'[i].type = "MsgUdpHeartbeat"
            ELSE /\ ev'.res = "accepted"
                 /\ next_udp_rx_seq'[c] = IF s = 65535 THEN 0 ELSE s + 1
    ]_vars

\* The expected number wrapped from 65535 to 0 on an accepted datagram.
C5_Witness ==
  /\ IsUdpEv(ev) /\ ev.res = "accepted" /\ ev.seq = 65535
  /\ next_udp_rx_seq[ev.c] = 0

C10_NoV2MessageToV1Client ==
  \A i \in 1..Len(out) :
    out[i].type \in {"MsgTalkerStart", "MsgTalkerStop", "MsgRequestQsy"}
    => ~(1000 <= proto_ver[out[i].to] /\ proto_ver[out[i].to] <= 1999)

\* A talker change was announced on a talkgroup that a connected v1 client
\* is a member of or monitors.
C10_Witness ==
  \E i \in 1..Len(out), c \in Objs :
    /\ out[i].type \in {"MsgTalkerStart", "MsgTalkerStop"}
    /\ proto_ver[c] = V1Lo
    /\ con_state[c] = STATE_CONNECTED
    /\ \E id \in DOMAIN m_client_map : m_client_map[id] = c
    /\ tg_of[c] = out[i].tg \/ out[i].tg \in monitored_tgs[c]

\* The datagrams of o addressed to client c, in order.
UdpTo(o, c) ==
  LET ToC(m) == m.ch = "udp" /\ m.to = c IN SelectSeq(o, ToC)

\* C6: the datagrams sent to a client carry 0, 1, 2, ... modulo 2^16 in the
\* order they are sent: the first one 0, each later one the successor of the
\* one sent before it, whatever kind of datagram it is.
C6_OutboundSequencing ==
  [][ \A c \in Objs :
        LET sent == UdpTo(out', c)
            first == IF last_tx_seq[c] = -1 THEN 0
                     ELSE IF last_tx_seq[c] = 65535 THEN 0
                     ELSE last_tx_seq[c] + 1
        IN /\ \A k \in 1..Len(sent) :
                sent[k].seq = (first + k - 1) % 65536
           /\ last_tx_seq'[c] =
                IF sent # << >> THEN sent[Len(sent)].seq
                ELSE IF ev'.op = "delete_client" /\ ev'.c = c THEN -1
                ELSE last_tx_seq[c]
    ]_vars

\* One handler sent a client the heartbeat numbered 65535 and then the
\* flush acknowledgement numbered 0.
C6_Witness ==
  \E i, j \in 1..Len(out) :
    /\ i < j
    /\ out[i].ch = "udp" /\ out[j].ch = "udp"
    /\ out[i].to = out[j].to
    /\ out[i].type = "MsgUdpHeartbeat" /\ out[i].seq = 65535
    /\ out[j].type = "MsgUdpAllSamplesFlushed" /\ out[j].seq = 0

\* C8: on a tick, a talker that has been silent for sql_timeout seconds,
\* sql_timeout > 0, loses the slot, its stop is announced to it and to the
\* v2 clients on or monitoring the talkgroup, and it is blocked for
\* sql_timeout_blocktime seconds; any other talker keeps the slot, and with
\* sql_timeout = 0 every talker does.  A block ends only by ticks, one
\* second each, or by the client's disconnection.
C8_SquelchTimeout ==
  [][ /\ ev'.op = "tick" =>
           \A g \in TGs :
             talker[g] # 0 =>
               IF sql_timeout > 0 /\ silence[g] + 1 >= sql_timeout
               THEN /\ talker'[g] = 0
                    /\ block_left'[talker[g]] = sql_timeout_blocktime
                    /\ \A c \in Objs :
                         ( /\ con_state[c] = STATE_CONNECTED
                           /\ \E id \in DOMAIN m_client_map : m_client_map[id] = c
                           /\ 2000 <= proto_ver[c] /\ proto_ver[c] <= 2999
                           /\ tg_of[c] = g \/ g \in monitored_tgs[c] )
                         => \E i \in 1..Len(out') :
                              out'[i] = Msg("tcp", c, "MsgTalkerStop", g,
                                            callsign[talker[g]], -1)
               ELSE talker'[g] = talker[g]
      /\ \A c \in Objs :
           block_left[c] > 0 =>
             \/ block_left'[c] = block_left[c] /\ ev'.op # "tick"
             \/ block_left'[c] = block_left[c] - 1 /\ ev'.op = "tick"
             \/ block_left'[c] = 0 /\ ev'.op = "clientDisconnected" /\ ev'.c = c
    ]_vars

\* A tick has just cleared a silent talker: its stop went out and it is on
\* the block list for the whole block time.
C8_Witness ==
  /\ ev.op = "tick"
  /\ sql_timeout > 0
  /\ \E i \in 1..Len(out), c \in Objs :
       /\ out[i].type = "MsgTalkerStop"
       /\ out[i].who = callsign[c]
       /\ block_left[c] = sql_timeout_blocktime
       /\ tg_of[c] = out[i].tg
       /\ talker[out[i].tg] = 0

\* C9: an audio datagram from a blocked client changes no talker and is not
\* relayed, and no blocked client is a talker; an unblocked member of a
\* talkgroup without a talker takes the slot with a non-empty audio datagram.
C9_BlockedAudioDropped ==
  [][ /\ \A g \in TGs : talker'[g] # 0 => block_left'[talker'[g]] = 0
      /\ (IsUdpEv(ev') /\ ev'.type = "Audio" /\ ev'.res = "accepted")
         => LET c == ev'.c
                g == tg_of[c]
            IN /\ block_left[c] > 0
                  => /\ talker' = talker
                     /\ \A i \in 1..Len(out') :
                          out'[i].type \notin {"MsgUdpAudio", "MsgTalkerStart",
                                               "MsgTalkerStartV1"}
               /\ (block_left[c] = 0 /\ ev'.payload = "data" /\ g > 0
                   /\ talker[g] = 0)
                  => talker'[g] = c
    ]_vars

\* A blocked client's audio arrived while its talkgroup had no talker, and
\* the slot stayed free.
C9_Witness ==
  /\ IsUdpEv(ev) /\ ev.type = "Audio" /\ ev.res = "accepted"
  /\ block_left[ev.c] > 0
  /\ tg_of[ev.c] > 0
  /\ talker[tg_of[ev.c]] = 0

\* The clients of the registry in state Connected whose protocol version
\* lies in [lo, hi].
ConnectedInRange(lo, hi) ==
  {c \in Objs : /\ \E id \in DOMAIN m_client_map : m_client_map[id] = c
                /\ con_state[c] = STATE_CONNECTED
                /\ lo <= proto_ver[c] /\ proto_ver[c] <= hi}

\* The positions of o that hold message m.
Sent(o, m) == {i \in 1..Len(o) : o[i] = m}

\* C11: a talker start (stop) on the talkgroup of the v1 clients sends
\* MsgTalkerStartV1 (MsgTalkerStopV1) with the talker's callsign once to
\* every connected v1 client, and a V1 talker message is sent on no other
\* occasion and to no other client.
C11_V1Shim ==
  [][ LET g == m_tg_for_v1_clients
          v1 == ConnectedInRange(1000, 1999)
          start == g \in TGs /\ talker[g] = 0 /\ talker'[g] # 0
          stop == g \in TGs /\ talker[g] # 0 /\ talker'[g] = 0
      IN /\ start => \A c \in v1 :
              Cardinality(Sent(out', Msg("tcp", c, "MsgTalkerStartV1", 0,
                                         callsign[talker'[g]], -1))) = 1
         /\ stop => \A c \in v1 :
              Cardinality(Sent(out', Msg("tcp", c, "MsgTalkerStopV1", 0,
                                         callsign[talker[g]], -1))) = 1
         /\ \A i \in 1..Len(out') :
              /\ out'[i].type = "MsgTalkerStartV1"
                 => /\ start
                    /\ out'[i].to \in v1
                    /\ out'[i].who = callsign[talker'[g]]
              /\ out'[i].type = "MsgTalkerStopV1"
                 => /\ stop
                    /\ out'[i].to \in v1
                    /\ out'[i].who = callsign[talker[g]]
    ]_vars

\* A v2 client took the slot of the talkgroup of the v1 clients and a v1
\* client was told so.
C11_Witness ==
  /\ IsUdpEv(ev) /\ ev.type = "Audio"
  /\ proto_ver[ev.c] = V2Lo
  /\ talker[m_tg_for_v1_clients] = ev.c
  /\ \E i \in 1..Len(out) :
       /\ out[i].type = "MsgTalkerStartV1"
       /\ proto_ver[out[i].to] = V1Lo
       /\ out[i].who = callsign[ev.c]

\* A talker start on another talkgroup, a v1 client being connected: no V1
\* talker message went out.
C11_WitnessOtherTG ==
  /\ IsUdpEv(ev) /\ ev.type = "Audio"
  /\ tg_of[ev.c] # m_tg_for_v1_clients
  /\ \E i \in 1..Len(out) : out[i].type = "MsgTalkerStart"
  /\ \E c \in Objs : proto_ver[c] = V1Lo /\ con_state[c] = STATE_CONNECTED
  /\ \A i \in 1..Len(out) : out[i].type # "MsgTalkerStartV1"

\* The talkgroups of the random QSY range that have no member.
EmptyInRange ==
  {g \in m_random_qsy_lo..m_random_qsy_hi : \A c \in Objs : tg_of[c] # g}

\* C12: a request for a random talkgroup that succeeds announces a talkgroup
\* of [lo, hi] that has no member, and leaves the cursor on it; the cursor
\* moves on no other occasion; and when two or more talkgroups of the range
\* have no member the talkgroup announced differs from the cursor, that is,
\* from the one announced last.
C12_QsyAllocation ==
  [][ /\ (ev'.op = "requestQsy" /\ ev'.id = 0 /\ ev'.res = "requested")
         => /\ 1 <= m_random_qsy_lo
            /\ m_random_qsy_lo <= ev'.tg /\ ev'.tg <= m_random_qsy_hi
            /\ ev'.tg \in EmptyInRange
            /\ \A i \in 1..Len(out') :
                 out'[i].type = "MsgRequestQsy" /\ out'[i].tg = ev'.tg
            /\ m_random_qsy_tg' = ev'.tg
            /\ Cardinality(EmptyInRange) >= 2 => ev'.tg # m_random_qsy_tg
      /\ m_random_qsy_tg' # m_random_qsy_tg
         => ev'.op = "requestQsy" /\ ev'.id = 0 /\ ev'.res = "requested"
    ]_vars

\* A random talkgroup other than the first of the range was announced to
\* the requester while the first one, passed over, has a member.
C12_Witness ==
  /\ ev.op = "requestQsy" /\ ev.id = 0 /\ ev.res = "requested"
  /\ ev.tg = m_random_qsy_lo + 1
  /\ \E c \in Objs : tg_of[c] = m_random_qsy_lo
  /\ \E i \in 1..Len(out) : out[i] = Msg("tcp", ev.c, "MsgRequestQsy", ev.tg, 0, -1)

\* All talkgroups of the range being empty, a random talkgroup was
\* announced that is not the first of the range: the one before it was
\* announced by the request before.
C12_WitnessSuccessive ==
  /\ ev.op = "requestQsy" /\ ev.id = 0 /\ ev.res = "requested"
  /\ ev.tg = m_random_qsy_lo + 1
  /\ \A c \in Objs : tg_of[c] = 0

\* C13: an unset or illegal RANDOM_QSY_RANGE leaves the allocator at zero,
\* where it stays; a request for a random talkgroup made then, or made when
\* every talkgroup of the range has a member, sends nothing and changes no
\* membership, talker or registry entry.
C13_QsyFailure ==
  /\ \A first \in 0..(MaxTG + 1), size \in 0..(MaxTG + 1) :
       (first < 1 \/ first + size - 1 < first)
       => QsyRange(first, size) = << 0, 0, 0 >>
  /\ [][ /\ m_random_qsy_lo' = m_random_qsy_lo
         /\ m_random_qsy_hi' = m_random_qsy_hi
         /\ m_random_qsy_tg = 0 => m_random_qsy_tg' = 0
         /\ \/ m_random_qsy_lo = 0 /\ m_random_qsy_hi = 0 /\ m_random_qsy_tg = 0
            \/ /\ 1 <= m_random_qsy_lo
               /\ m_random_qsy_lo <= m_random_qsy_tg
               /\ m_random_qsy_tg <= m_random_qsy_hi
         /\ ( /\ ev'.op = "requestQsy" /\ ev'.id = 0
              /\ m_random_qsy_tg = 0 \/ EmptyInRange = {} )
            => /\ out' = << >>
               /\ tgvars' = tgvars
               /\ m_client_map' = m_client_map
               /\ ev'.res \in {"range_empty", "none_available"}
       ]_vars

\* A request for a random talkgroup failed because every talkgroup of a
\* legal range has a member.
C13_Witness ==
  /\ ev.op = "requestQsy" /\ ev.id = 0 /\ ev.res = "none_available"
  /\ m_random_qsy_lo >= 1
  /\ EmptyInRange = {}
  /\ out = << >>

\* A request for a random talkgroup failed because no range is configured.
C13_WitnessDisabled ==
  /\ ev.op = "requestQsy" /\ ev.id = 0 /\ ev.res = "range_empty"
  /\ m_random_qsy_tg = 0
  /\ tg_of[ev.c] > 0

\* The client objects something still refers to: the two maps, the
\* talkgroup memberships, the talker slots and the block list.
Referenced ==
  {c \in Objs : \/ \E id \in DOMAIN m_client_map : m_client_map[id] = c
                \/ \E con \in DOMAIN m_client_con_map : m_client_con_map[con] = c
                \/ tg_of[c] # 0
                \/ \E g \in TGs : talker[g] = c
                \/ block_left[c] > 0}

\* C14: the disconnect handler leaves the client object alive and queues its
\* deletion; an object is deleted only by the task run at the head of the
\* queue, in a later step, and nothing refers to it then: neither map, no
\* talkgroup, no talker slot, no block list.
C14_DeferredDestruction ==
  [][ /\ ev'.op = "clientDisconnected"
         => /\ obj_state[ev'.c] = "live"
            /\ obj_state'[ev'.c] = "disconnected"
            /\ tasks' = Append(tasks, ev'.c)
            /\ ev'.c \notin Referenced'
      /\ \A c \in Objs :
           (obj_state'[c] = "deleted" /\ obj_state[c] # "deleted")
           => /\ ev'.op = "delete_client" /\ ev'.c = c
              /\ obj_state[c] = "disconnected"
              /\ tasks # << >> /\ Head(tasks) = c
              /\ c \notin Referenced
      /\ \A c \in Objs : obj_state'[c] = "disconnected" => c \notin Referenced'
    ]_vars

\* The object of a client that left is deleted while another client holds a
\* talker slot.
C14_Witness ==
  /\ ev.op = "delete_client"
  /\ obj_state[ev.c] = "deleted"
  /\ ev.c \notin Referenced
  /\ \E d \in Objs : d # ev.c /\ obj_state[d] = "live" /\ tg_of[d] > 0
                     /\ talker[tg_of[d]] = d

\* C15: when client c disconnects with a callsign, MsgNodeLeft(callsign) is
\* sent once to every other client of the registry in state Connected and
\* to nobody else; when c disconnects without a callsign, and in every other
\* handler, no MsgNodeLeft is sent.
C15_NodeLeft ==
  [][ IF ev'.op = "clientDisconnected" /\ callsign[ev'.c] # 0
      THEN LET c == ev'.c
               others == ConnectedInRange(0, V2Hi) \ {c}
           IN /\ \A d \in Objs :
                   Cardinality(Sent(out', Msg("tcp", d, "MsgNodeLeft", 0,
                                              callsign[c], -1)))
                   = IF d \in others THEN 1 ELSE 0
              /\ \A i \in 1..Len(out') :
                   out'[i].type = "MsgNodeLeft" => out'[i].who = callsign[c]
      ELSE \A i \in 1..Len(out') : out'[i].type # "MsgNodeLeft"
    ]_vars

\* An authenticated client disconnected and the other connected client was
\* told so.
C15_Witness ==
  /\ ev.op = "clientDisconnected"
  /\ callsign[ev.c] # 0
  /\ \E i \in 1..Len(out) :
       /\ out[i].type = "MsgNodeLeft"
       /\ out[i].to # ev.c
       /\ out[i].who = callsign[ev.c]
       /\ con_state[out[i].to] = STATE_CONNECTED

\* A client disconnected before it authenticated while another client is
\* connected: nothing was sent.
C15_WitnessNoCallsign ==
  /\ ev.op = "clientDisconnected"
  /\ callsign[ev.c] = 0
  /\ out = << >>
  /\ \E d \in Objs : d # ev.c /\ obj_state[d] = "live"
                     /\ con_state[d] = STATE_CONNECTED

\* C16: client ids are non-zero and never change, no two clients that were
\* ever created share one, the registry files each client under its own id,
\* and the id of a new client is neither a key of the registry nor the id
\* of any client created before, so the insertion overwrites nothing.
C16_ClientIdsUnique ==
  [][ /\ \A c \in Objs :
           /\ obj_state'[c] # "none" => client_id'[c] # 0
           /\ obj_state[c] # "none" => client_id'[c] = client_id[c]
           /\ \A d \in Objs \ {c} :
                (obj_state'[c] # "none" /\ obj_state'[d] # "none")
                => client_id'[c] # client_id'[d]
      /\ \A id \in DOMAIN m_client_map' :
           /\ obj_state'[m_client_map'[id]] = "live"
           /\ client_id'[m_client_map'[id]] = id
      /\ ev'.op = "clientConnected"
         => LET c == ev'.c IN
            /\ obj_state[c] = "none"
            /\ client_id'[c] \notin DOMAIN m_client_map
            /\ \A d \in Objs :
                 obj_state[d] # "none" => client_id[d] # client_id'[c]
            /\ DOMAIN m_client_map' = DOMAIN m_client_map \cup {client_id'[c]}
            /\ m_client_map'[client_id'[c]] = c
            /\ \A id \in DOMAIN m_client_map :
                 m_client_map'[id] = m_client_map[id]
    ]_vars

\* A client has connected after another one disconnected and was deleted.
C16_Witness ==
  /\ ev.op = "clientConnected"
  /\ client_id[ev.c] \in DOMAIN m_client_map
  /\ \E d \in Objs : /\ obj_state[d] = "deleted"
                     /\ client_id[d] \notin DOMAIN m_client_map
                     /\ client_id[d] # 0

\* The steps of the session state machine.
HandshakeSteps ==
  { << "Connecting", "Handshaking" >>, << "Handshaking", "AwaitAuthResp" >>,
    << "AwaitAuthResp", STATE_CONNECTED >> }

\* C17: a client in state Connected has a callsign and a negotiated
\* protocol version, and its callsign is in the node list; a session moves
\* only from Connecting to Handshaking to AwaitAuthResp to Connected, and the
\* callsign is set on the last of these moves only.
C17_ConnectedHasCallsign ==
  [][ \A c \in Objs :
        /\ con_state'[c] = STATE_CONNECTED
           => /\ callsign'[c] # 0
              /\ proto_ver'[c] # 0
              /\ (\E id \in DOMAIN m_client_map' : m_client_map'[id] = c)
                 => callsign'[c] \in NodeList'
        /\ con_state'[c] # con_state[c]
           => \/ << con_state[c], con_state'[c] >> \in HandshakeSteps
              \/ ev'.op = "delete_client" /\ ev'.c = c
        /\ (callsign'[c] # 0 /\ callsign[c] = 0)
           => /\ con_state[c] = "AwaitAuthResp"
              /\ con_state'[c] = STATE_CONNECTED
    ]_vars

\* A session has just become Connected: its callsign is known and listed.
C17_Witness ==
  /\ ev.op = "recvAuthResponse"
  /\ con_state[ev.c] = STATE_CONNECTED
  /\ callsign[ev.c] # 0
  /\ callsign[ev.c] \in NodeList
  /\ \E d \in Objs : obj_state[d] = "live" /\ con_state[d] = "AwaitAuthResp"
                     /\ callsign[d] = 0

\* C18: an accepted audio datagram from c is relayed exactly when c is not
\* blocked, the payload is not empty, c is in a talkgroup tg and c is the
\* talker of tg once the datagram is handled; it then goes once to every
\* client of the registry in state Connected whose talkgroup is tg, c
\* excepted, and to nobody else.  Audio is sent in no other handler, and an
\* audio datagram without data or from a client without talkgroup changes
\* no talker.
C18_AudioRelayTargets ==
  [][ IF IsUdpEv(ev') /\ ev'.res = "accepted" /\ ev'.type = "Audio"
      THEN LET c == ev'.c
               tg == tg_of[c]
               ok == /\ block_left[c] = 0
                     /\ ev'.payload = "data"
                     /\ tg > 0
                     /\ talker'[tg] = c
               targets == {d \in ConnectedInRange(0, 2999) \ {c} : tg_of[d] = tg}
           IN /\ \A d \in Objs :
                   Cardinality({i \in 1..Len(out') :
                                  /\ out'[i].type = "MsgUdpAudio"
                                  /\ out'[i].to = d})
                   = IF ok /\ d \in targets THEN 1 ELSE 0
              /\ \A i \in 1..Len(out') :
                   out'[i].type = "MsgUdpAudio"
                   => out'[i].ch = "udp" /\ out'[i].who = callsign[c]
              /\ (ev'.payload # "data" \/ tg = 0) => talker' = talker
      ELSE \A i \in 1..Len(out') : out'[i].type # "MsgUdpAudio"
    ]_vars

\* The talker's audio was relayed to the other member of its talkgroup,
\* no talker start being due.
C18_Witness ==
  /\ IsUdpEv(ev) /\ ev.res = "accepted" /\ ev.type = "Audio"
  /\ ev.payload = "data"
  /\ tg_of[ev.c] > 0
  /\ talker[tg_of[ev.c]] = ev.c
  /\ \E i \in 1..Len(out) :
       /\ out[i].type = "MsgUdpAudio"
       /\ out[i].to # ev.c
       /\ tg_of[out[i].to] = tg_of[ev.c]
  /\ \A i \in 1..Len(out) : out[i].type # "MsgTalkerStart"

\* An audio datagram with an empty payload arrived from a member of a
\* talkgroup without talker, which stays without talker.
C18_WitnessEmpty ==
  /\ IsUdpEv(ev) /\ ev.res = "accepted" /\ ev.type = "Audio"
  /\ ev.payload = "empty"
  /\ tg_of[ev.c] > 0
  /\ talker[tg_of[ev.c]] = 0

\* C19: an accepted MsgUdpFlushSamples from c clears the talker of c's
\* talkgroup when c is in a talkgroup and is its talker, and changes no
\* talker otherwise; in both cases one MsgUdpAllSamplesFlushed is sent, to
\* c, as the last thing the handler does.  No other handler sends one.
C19_FlushHandling ==
  [][ IF IsUdpEv(ev') /\ ev'.res = "accepted" /\ ev'.type = "FlushSamples"
      THEN LET c == ev'.c
               tg == tg_of[c]
           IN /\ talker' = IF tg > 0 /\ talker[tg] = c
                           THEN [talker EXCEPT ![tg] = 0]
                           ELSE talker
              /\ Cardinality({i \in 1..Len(out') :
                                out'[i].type = "MsgUdpAllSamplesFlushed"}) = 1
              /\ out' # << >>
              /\ out'[Len(out')].type = "MsgUdpAllSamplesFlushed"
              /\ out'[Len(out')].to = c
              /\ out'[Len(out')].ch = "udp"
      ELSE \A i \in 1..Len(out') : out'[i].type # "MsgUdpAllSamplesFlushed"
    ]_vars

\* A member that is not the talker flushed: the talker keeps the slot and
\* the flush is acknowledged.
C19_Witness ==
  /\ IsUdpEv(ev) /\ ev.res = "accepted" /\ ev.type = "FlushSamples"
  /\ tg_of[ev.c] > 0
  /\ talker[tg_of[ev.c]] \notin {0, ev.c}
  /\ \E i \in 1..Len(out) :
       out[i].type = "MsgUdpAllSamplesFlushed" /\ out[i].to = ev.c

\* The talker flushed: its stop was announced and the flush acknowledged.
C19_WitnessTalker ==
  /\ IsUdpEv(ev) /\ ev.res = "accepted" /\ ev.type = "FlushSamples"
  /\ tg_of[ev.c] > 0
  /\ talker[tg_of[ev.c]] = 0
  /\ \E i, j \in 1..Len(out) :
       /\ i < j
       /\ out[i].type = "MsgTalkerStop" /\ out[i].who = callsign[ev.c]
       /\ out[j].type = "MsgUdpAllSamplesFlushed" /\ out[j].to = ev.c

\* C20: when the talker c of talkgroup g selects another talkgroup, or
\* none, or disconnects, g has no talker afterwards, c is no member of g,
\* MsgTalkerStop(g, c) has gone once to every connected v2 client on or
\* monitoring g and MsgUdpFlushSamples once to every connected member of g
\* other than c; and a member of a talkgroup without talker, not blocked,
\* takes the slot with an audio datagram that carries data.
C20_TalkerReleaseOnDeparture ==
  [][ /\ ( /\ ev'.op \in {"selectTG", "clientDisconnected"}
           /\ tg_of[ev'.c] > 0
           /\ talker[tg_of[ev'.c]] = ev'.c
           /\ ev'.op = "selectTG" => ev'.tg # tg_of[ev'.c] )
         => LET c == ev'.c
                g == tg_of[c]
            IN /\ talker'[g] = 0
               /\ tg_of'[c] # g
               /\ \A d \in ConnectedInRange(2000, 2999) :
                    (tg_of[d] = g \/ g \in monitored_tgs[d])
                    => Cardinality(Sent(out', Msg("tcp", d, "MsgTalkerStop", g,
                                                  callsign[c], -1))) = 1
               /\ \A d \in ConnectedInRange(0, 2999) \ {c} :
                    tg_of[d] = g
                    => Cardinality({i \in 1..Len(out') :
                                      /\ out'[i].type = "MsgUdpFlushSamples"
                                      /\ out'[i].ch = "udp"
                                      /\ out'[i].to = d}) = 1
      /\ ( /\ IsUdpEv(ev') /\ ev'.res = "accepted" /\ ev'.type = "Audio"
           /\ ev'.payload = "data"
           /\ block_left[ev'.c] = 0
           /\ tg_of[ev'.c] > 0
           /\ talker[tg_of[ev'.c]] = 0 )
         => talker'[tg_of[ev'.c]] = ev'.c
    ]_vars

\* The talker disconnected: its talkgroup has no talker, and the member that
\* stays was sent the stop and the flush.
C20_Witness ==
  /\ ev.op = "clientDisconnected"
  /\ \E i, j \in 1..Len(out) :
       /\ out[i].type = "MsgTalkerStop" /\ out[i].who = callsign[ev.c]
       /\ out[i].to # ev.c
       /\ talker[out[i].tg] = 0
       /\ tg_of[out[i].to] = out[i].tg
       /\ out[j].type = "MsgUdpFlushSamples" /\ out[j].to = out[i].to

\* The talker selected another talkgroup: the one it left has no talker and
\* its other member was sent the stop and the flush.
C20_WitnessSelect ==
  /\ ev.op = "selectTG"
  /\ \E i, j \in 1..Len(out) :
       /\ out[i].type = "MsgTalkerStop" /\ out[i].who = callsign[ev.c]
       /\ out[i].to # ev.c
       /\ out[i].tg # tg_of[ev.c]
       /\ talker[out[i].tg] = 0
       /\ out[j].type = "MsgUdpFlushSamples" /\ out[j].to = out[i].to

\* The positions of o that announce, with message type, a talker event on
\* talkgroup g to client d.
Announced(o, type, g, d) ==
  {i \in 1..Len(o) : o[i].type = type /\ o[i].tg = g /\ o[i].to = d}

\* C21: on each talkgroup a step either installs a talker where there was
\* none, announcing one start and no stop, or clears the talker, announcing
\* one stop and no start, or leaves the talker as it is and announces
\* nothing, further audio of the talker included; a talker is never replaced
\* by another in one step.  Each announcement reaches a v2 talker itself
\* once and nobody twice.
C21_TalkerEventsOncePerTransition ==
  [][ \A g \in TGs :
        LET old == talker[g]
            new == talker'[g]
            starts == {i \in 1..Len(out') :
                         out'[i].type = "MsgTalkerStart" /\ out'[i].tg = g}
            stops == {i \in 1..Len(out') :
                        out'[i].type = "MsgTalkerStop" /\ out'[i].tg = g}
        IN /\ ~(old # 0 /\ new # 0 /\ old # new)
           /\ \A d \in Objs :
                /\ Cardinality(Announced(out', "MsgTalkerStart", g, d)) <= 1
                /\ Cardinality(Announced(out', "MsgTalkerStop", g, d)) <= 1
           /\ (old = 0 /\ new # 0)
              => /\ stops = {}
                 /\ \A i \in starts : out'[i].who = callsign[new]
                 /\ (2000 <= proto_ver[new] /\ proto_ver[new] <= 2999)
                    => Cardinality(Announced(out', "MsgTalkerStart", g, new)) = 1
           /\ (old # 0 /\ new = 0)
              => /\ starts = {}
                 /\ \A i \in stops : out'[i].who = callsign[old]
                 /\ (2000 <= proto_ver[old] /\ proto_ver[old] <= 2999)
                    => Cardinality(Announced(out', "MsgTalkerStop", g, old)) = 1
           /\ old = new => starts = {} /\ stops = {}
    ]_vars

\* The talker sent further audio, which was relayed: nothing was announced
\* and it is still the talker.
C21_Witness ==
  /\ IsUdpEv(ev) /\ ev.res = "accepted" /\ ev.type = "Audio"
  /\ ev.payload = "data"
  /\ tg_of[ev.c] > 0
  /\ talker[tg_of[ev.c]] = ev.c
  /\ out # << >>
  /\ \A i \in 1..Len(out) : out[i].type = "MsgUdpAudio"

\* C22: the map keyed by client id and the map keyed by connection hold the
\* same clients, the live ones, each under one key: a client's id in the
\* first and its connection in the second.
C22_ClientMapsAgree ==
  LET byId == {m_client_map[id] : id \in DOMAIN m_client_map}
      byCon == {m_client_con_map[con] : con \in DOMAIN m_client_con_map}
  IN /\ byId = byCon
     /\ byId = {c \in Objs : obj_state[c] = "live"}
     /\ Cardinality(DOMAIN m_client_map) = Cardinality(byId)
     /\ Cardinality(DOMAIN m_client_con_map) = Cardinality(byCon)
     /\ \A c \in byId :
          /\ client_id[c] \in DOMAIN m_client_map
          /\ m_client_map[client_id[c]] = c
          /\ \E con \in DOMAIN m_client_con_map : m_client_con_map[con] = c

\* A client has disconnected while another one stays in both maps.
C22_Witness ==
  /\ ev.op = "clientDisconnected"
  /\ obj_state[ev.c] = "disconnected"
  /\ \E d \in Objs : /\ d # ev.c
                     /\ client_id[d] \in DOMAIN m_client_map
                     /\ m_client_map[client_id[d]] = d
                     /\ \E con \in DOMAIN m_client_con_map :
                          m_client_con_map[con] = d

\* C23: once the disconnect handler of a client has run, before and after
\* the deferred deletion of the object, no handler sends that client a
\* control message or a datagram, and a datagram carrying its client id is
\* dropped at the client lookup and changes nothing.
C23_GoneClientIsSilent ==
  [][ \A c \in Objs :
        obj_state[c] \in {"disconnected", "deleted"} =>
          /\ \A i \in 1..Len(out') : out'[i].to # c
          /\ (IsUdpEv(ev') /\ ev'.id = client_id[c]) =>
               /\ ev'.c = 0
               /\ ev'.res = "invalid_client_id"
               /\ out' = << >>
               /\ base' = base ]_vars

\* A datagram with the id of a disconnected client arrives while the object
\* waits for its deletion and another client is connected.
C23_Witness ==
  /\ IsUdpEv(ev)
  /\ ev.res = "invalid_client_id"
  /\ \E c \in Objs : /\ obj_state[c] = "disconnected"
                     /\ client_id[c] = ev.id
                     /\ callsign[c] # 0
  /\ AuthenticatedIds # {}

\* The same after the object was deleted.
C23_WitnessDeleted ==
  /\ IsUdpEv(ev)
  /\ ev.res = "invalid_client_id"
  /\ \E c \in Objs : obj_state[c] = "deleted" /\ client_id[c] = ev.id

\* A handler sends messages while a client that was connected, and on the
\* talkgroup of the sender, is gone.
C23_WitnessBroadcast ==
  /\ IsUdpEv(ev)
  /\ ev.res = "accepted"
  /\ out # << >>
  /\ \E c \in Objs : /\ obj_state[c] = "disconnected"
                     /\ con_state[c] = STATE_CONNECTED

\* C24: with a valid range the QSY cursor stays within [lo, hi]; the scan
\* of a request for a random talkgroup ends after examining at most
\* hi - lo + 1 talkgroups; a request that allocates nothing leaves the
\* cursor where it was, and so does a request that names its talkgroup.
C24_QsyCursor ==
  /\ [](m_random_qsy_lo >= 1 =>
          LET range_size == m_random_qsy_hi - m_random_qsy_lo + 1
              scan == QsyScan(Cur, m_random_qsy_tg, 0, range_size)
              examined == IF scan[2] < range_size THEN scan[2] + 1
                          ELSE range_size
          IN /\ m_random_qsy_lo <= m_random_qsy_tg
             /\ m_random_qsy_tg <= m_random_qsy_hi
             /\ 1 <= examined /\ examined <= range_size
             /\ m_random_qsy_lo <= scan[1] /\ scan[1] <= m_random_qsy_hi
             /\ scan[2] = range_size => scan[1] = m_random_qsy_tg)
  /\ [][ ev'.op = "requestQsy" =>
           /\ ev'.res \in {"range_empty", "none_available"}
                => m_random_qsy_tg' = m_random_qsy_tg
           /\ ev'.id # 0 => m_random_qsy_tg' = m_random_qsy_tg ]_vars

\* A request naming its talkgroup was broadcast while the cursor, moved by
\* an earlier request from hi, stands on lo.
C24_Witness ==
  /\ ev.op = "requestQsy" /\ ev.id # 0 /\ ev.res = "requested"
  /\ m_random_qsy_lo >= 1
  /\ m_random_qsy_lo < m_random_qsy_hi
  /\ m_random_qsy_tg = m_random_qsy_lo
  /\ out # << >>

\* A request for a random talkgroup went round a range of two talkgroups
\* and found a member in each.
C24_WitnessFull ==
  /\ ev.op = "requestQsy" /\ ev.id = 0 /\ ev.res = "none_available"
  /\ m_random_qsy_hi = m_random_qsy_lo + 1
  /\ m_random_qsy_tg = m_random_qsy_lo
  /\ \A g \in m_random_qsy_lo..m_random_qsy_hi : \E c \in Objs : tg_of[c] = g

\* C25: the detector opens only on a processSamples call that reads a
\* signal level >= open_thresh and closes only on one that reads a level
\* < close_thresh, or on reset; setOpen is called on exactly these changes
\* made by processSamples, with the new state; the setOpen calls since the
\* construction or the last reset are true, false, true, ...; and after
\* reset the detector is closed.
C25_SquelchAlternates ==
  /\ [][ /\ (~is_open /\ is_open')
            => /\ sq_ev'.op = "processSamples"
               /\ sq_ev'.siglev >= sq_ev'.open
               /\ thresh_set[1] => sq_ev'.open = open_thresh
         /\ (is_open /\ ~is_open')
            => \/ sq_ev'.op = "reset"
               \/ /\ sq_ev'.op = "processSamples"
                  /\ sq_ev'.siglev < sq_ev'.close
                  /\ thresh_set[2] => sq_ev'.close = close_thresh
         /\ sq_ev'.op = "processSamples"
            => set_open_calls' = IF is_open' # is_open
                                 THEN Append(set_open_calls, is_open')
                                 ELSE set_open_calls
         /\ sq_ev'.op = "initialize"
            => is_open' = is_open /\ set_open_calls' = set_open_calls
         /\ sq_ev'.op = "reset" => ~is_open' /\ set_open_calls' = << >>
       ]_vars
  /\ [](\A i \in 1..Len(set_open_calls) :
          set_open_calls[i] = (i % 2 = 1))

\* The configured detector has opened, closed and opened again since the
\* last reset, on levels either side of two different thresholds.
C25_Witness ==
  /\ sq_ev.op = "processSamples"
  /\ thresh_set = << TRUE, TRUE >>
  /\ close_thresh < open_thresh
  /\ ~sq_ev.was_open /\ is_open
  /\ set_open_calls = << TRUE, FALSE, TRUE >>

\* An open detector was reset.
C25_WitnessReset ==
  /\ sq_ev.op = "reset"
  /\ sq_ev.was_open
  /\ ~is_open

\* A level between the thresholds left the open detector open.
C25_WitnessHysteresis ==
  /\ sq_ev.op = "processSamples"
  /\ thresh_set = << TRUE, TRUE >>
  /\ sq_ev.was_open /\ is_open
  /\ close_thresh <= sq_ev.siglev /\ sq_ev.siglev < open_thresh

====
